---- MODULE Spec2Model ----
(***************************************************************************)
(* Model of the SlangCompiler tool of KryneEngineTools                     *)
(* (src/SlangCompiler/main.cpp): the binding classifier                    *)
(* ParseDescriptorBindingType and the reflection flattening done by main   *)
(* (global scan, per-entry-point first pass, population pass, report,      *)
(* hand-off to Blob::CreateBlob).                                          *)
(***************************************************************************)
EXTENDS Integers, Sequences, FiniteSets, TLC

\* Bounds of the reflection trees explored.
MaxTotalParams == 3
MaxEntryPoints == 2

(***************************************************************************)
(* Values of the reflection source (slang.h) that the code tests.          *)
(***************************************************************************)
Kinds == {"Struct", "Resource", "ConstantBuffer", "SamplerState", "ParameterBlock"}

TextureShapes ==
    {"SLANG_TEXTURE_1D", "SLANG_TEXTURE_2D", "SLANG_TEXTURE_3D", "SLANG_TEXTURE_CUBE"}

BufferShapes == {"SLANG_STRUCTURED_BUFFER", "SLANG_BYTE_ADDRESS_BUFFER"}

\* every value of resourceShape & SLANG_RESOURCE_BASE_SHAPE_MASK
BaseShapes ==
    TextureShapes \cup BufferShapes \cup
    {"SLANG_RESOURCE_NONE", "SLANG_TEXTURE_BUFFER", "SLANG_RESOURCE_UNKNOWN",
     "SLANG_ACCELERATION_STRUCTURE", "SLANG_TEXTURE_SUBPASS"}

\* every value of SlangResourceAccess
Accesses ==
    {"SLANG_RESOURCE_ACCESS_NONE", "SLANG_RESOURCE_ACCESS_READ",
     "SLANG_RESOURCE_ACCESS_READ_WRITE", "SLANG_RESOURCE_ACCESS_RASTER_ORDERED",
     "SLANG_RESOURCE_ACCESS_APPEND", "SLANG_RESOURCE_ACCESS_CONSUME",
     "SLANG_RESOURCE_ACCESS_WRITE", "SLANG_RESOURCE_ACCESS_FEEDBACK"}

\* DescriptorBindingDesc::Type, in declaration order (the order `<` compares)
DescriptorBindingDescType ==
    << "Sampler", "SampledTexture", "StorageReadOnlyTexture", "StorageReadWriteTexture",
       "ConstantBuffer", "StorageReadOnlyBuffer", "StorageReadWriteBuffer" >>

Ord(t) == CHOOSE n \in 1..Len(DescriptorBindingDescType) : DescriptorBindingDescType[n] = t

(***************************************************************************)
(* ParseDescriptorBindingType.  KE_ERROR is the engine's assertion macro,  *)
(* defined outside this repository: it reports, and then either stops the *)
(* process there or returns, in which case the `break` that follows it is  *)
(* taken.  `halts` says which.  A result is                                *)
(* [returned, type, textureType, errors].                                  *)
(***************************************************************************)
\* the first switch (baseShape, then access), starting from SampledTexture
BindingTypeOf(baseShape, access) ==
    IF baseShape \in TextureShapes
    THEN CASE access = "SLANG_RESOURCE_ACCESS_READ" ->
                [type |-> "SampledTexture", errors |-> {}]
           [] access \in {"SLANG_RESOURCE_ACCESS_READ_WRITE", "SLANG_RESOURCE_ACCESS_WRITE"} ->
                [type |-> "StorageReadWriteTexture", errors |-> {}]
           [] OTHER ->
                [type |-> "SampledTexture", errors |-> {"UnsupportedAccess"}]
    ELSE IF baseShape \in BufferShapes
    THEN CASE access = "SLANG_RESOURCE_ACCESS_READ" ->
                [type |-> "StorageReadOnlyBuffer", errors |-> {}]
           [] access \in {"SLANG_RESOURCE_ACCESS_READ_WRITE", "SLANG_RESOURCE_ACCESS_WRITE"} ->
                [type |-> "StorageReadWriteBuffer", errors |-> {}]
           [] OTHER ->
                [type |-> "SampledTexture", errors |-> {"UnsupportedAccess"}]
    ELSE [type |-> "SampledTexture", errors |-> {}]

TextureTypeOfCubeIgnoresArray(bindingType, baseShape, isArray) ==
    IF Ord(bindingType) < Ord("StorageReadOnlyBuffer")
    THEN CASE baseShape = "SLANG_TEXTURE_1D" ->
                [textureType |-> IF isArray THEN "Array1D" ELSE "Single1D", errors |-> {}]
           [] baseShape = "SLANG_TEXTURE_2D" ->
                [textureType |-> IF isArray THEN "Array2D" ELSE "Single2D", errors |-> {}]
           [] baseShape = "SLANG_TEXTURE_3D" ->
                [textureType |-> "Single3D", errors |-> {}]
           [] baseShape = "SLANG_TEXTURE_CUBE" ->
                [textureType |-> "SingleCube", errors |-> {}]
           [] OTHER ->
                [textureType |-> "Single2D", errors |-> {"UnreachableShape"}]
    ELSE [textureType |-> "Single2D", errors |-> {}]

\* the second switch, entered when bindingType < StorageReadOnlyBuffer
TextureTypeOf(bindingType, baseShape, isArray) ==
    IF Ord(bindingType) < Ord("StorageReadOnlyBuffer")
    THEN CASE baseShape = "SLANG_TEXTURE_1D" ->
                [textureType |-> IF isArray THEN "Array1D" ELSE "Single1D", errors |-> {}]
           [] baseShape = "SLANG_TEXTURE_2D" ->
                [textureType |-> IF isArray THEN "Array2D" ELSE "Single2D", errors |-> {}]
           [] baseShape = "SLANG_TEXTURE_3D" ->
                [textureType |-> "Single3D", errors |-> {}]
           [] baseShape = "SLANG_TEXTURE_CUBE" ->
                [textureType |-> IF isArray THEN "ArrayCube" ELSE "SingleCube", errors |-> {}]
           [] OTHER ->
                [textureType |-> "Single2D", errors |-> {"UnreachableShape"}]
    ELSE [textureType |-> "Single2D", errors |-> {}]

Returned(type, textureType, errors) ==
    [returned |-> TRUE, type |-> type, textureType |-> textureType, errors |-> errors]

\* the process stopped inside the call: nothing comes back to the caller
Halted(errors) ==
    [returned |-> FALSE, type |-> "Unset", textureType |-> "Unset", errors |-> errors]

ParseDescriptorBindingType(typeLayout, halts) ==
    IF typeLayout.kind = "ConstantBuffer"
    THEN Returned("ConstantBuffer", "Single2D", {})
    ELSE IF typeLayout.kind = "SamplerState"
    THEN Returned("Sampler", "Single2D", {})
    ELSE LET b == BindingTypeOf(typeLayout.baseShape, typeLayout.access) IN
         IF b.errors # {} /\ halts
         THEN Halted(b.errors)
         ELSE LET t == TextureTypeOf(b.type, typeLayout.baseShape, typeLayout.isArray) IN
              IF t.errors # {} /\ halts
              THEN Halted(b.errors \cup t.errors)
              ELSE Returned(b.type, t.textureType, b.errors \cup t.errors)

\* the stage switch of the first pass; "Unsupported" is its default branch
MapStage(stage) ==
    CASE stage = "SLANG_STAGE_VERTEX" -> "Vertex"
      [] stage = "SLANG_STAGE_HULL" -> "TesselationControl"
      [] stage = "SLANG_STAGE_DOMAIN" -> "TesselationEvaluation"
      [] stage = "SLANG_STAGE_GEOMETRY" -> "Geometry"
      [] stage = "SLANG_STAGE_FRAGMENT" -> "Fragment"
      [] stage = "SLANG_STAGE_COMPUTE" -> "Compute"
      [] stage = "SLANG_STAGE_MESH" -> "Mesh"
      [] stage = "SLANG_STAGE_AMPLIFICATION" -> "Task"
      [] OTHER -> "Unsupported"

(***************************************************************************)
(* Reflection trees: the input of one invocation.                          *)
(***************************************************************************)
Field(name, bindingIndex, kind, baseShape, isArray, access) ==
    [name |-> name, bindingIndex |-> bindingIndex, kind |-> kind,
     baseShape |-> baseShape, isArray |-> isArray, access |-> access]

\* every type layout the classifier can be asked about
TypeLayouts ==
    { Field("f", 0, kd, sh, ar, ac) :
        kd \in Kinds, sh \in BaseShapes, ar \in BOOLEAN, ac \in Accesses }

\* a parameter: its type layout's kind, its binding category, getSize per
\* category, and the fields of its element type layout
Param(name, kind, category, sizes, fields) ==
    [name |-> name, kind |-> kind, category |-> category, sizes |-> sizes,
     fields |-> fields]

\* what getSize answers for the categories a parameter can be asked about
Sizes(uniform, pushConstant, slot) ==
    [Uniform |-> uniform, PushConstantBuffer |-> pushConstant,
     DescriptorTableSlot |-> slot]

GetSize(parameter, category) ==
    IF category \in DOMAIN parameter.sizes THEN parameter.sizes[category] ELSE 0

\* ParameterBlock<{Texture2D; SamplerState}>
BlockG ==
    Param("G", "ParameterBlock", "SubElementRegisterSpace", Sizes(0, 0, 0),
          << Field("albedo", 0, "Resource", "SLANG_TEXTURE_2D", FALSE,
                   "SLANG_RESOURCE_ACCESS_READ"),
             Field("linear", 1, "SamplerState", "SLANG_RESOURCE_NONE", FALSE,
                   "SLANG_RESOURCE_ACCESS_NONE") >>)

\* ParameterBlock of an empty struct
BlockZ ==
    Param("Z", "ParameterBlock", "SubElementRegisterSpace", Sizes(0, 0, 0), <<>>)

\* ParameterBlock<{RWStructuredBuffer; Buffer; AppendStructuredBuffer}>
BlockE ==
    Param("E", "ParameterBlock", "SubElementRegisterSpace", Sizes(0, 0, 0),
          << Field("items", 3, "Resource", "SLANG_STRUCTURED_BUFFER", FALSE,
                   "SLANG_RESOURCE_ACCESS_READ_WRITE"),
             Field("lut", 4, "Resource", "SLANG_TEXTURE_BUFFER", FALSE,
                   "SLANG_RESOURCE_ACCESS_READ"),
             Field("out", 5, "Resource", "SLANG_STRUCTURED_BUFFER", FALSE,
                   "SLANG_RESOURCE_ACCESS_APPEND") >>)

\* uniform float4x4
UniformU ==
    Param("U", "Struct", "Uniform", Sizes(64, 0, 0), <<>>)

\* ConstantBuffer<T> bound to a descriptor slot
CBufferC ==
    Param("C", "ConstantBuffer", "DescriptorTableSlot", Sizes(32, 0, 1), <<>>)

\* [[vk::push_constant]] ConstantBuffer<T>
PushP ==
    Param("P", "ConstantBuffer", "PushConstantBuffer", Sizes(48, 16, 0), <<>>)

ParamPalette == {BlockG, BlockE, BlockZ, UniformU, CBufferC, PushP}

StagePalette == {"SLANG_STAGE_FRAGMENT", "SLANG_STAGE_RAY_GENERATION"}

SubSeqOf(seq, from, to) == [x \in 1..(to - from) |-> seq[from + x]]

\* the tree whose parameters, in declaration order, are `flat`: the first
\* cut[1] are global, entry point e owns those from cut[e] to cut[e + 1]
MkTree(flat, cut, stages) ==
    [parameters |-> SubSeqOf(flat, 0, cut[1]),
     entryPoints |->
        [e \in 1..Len(stages) |->
            [name |-> "entry" \o ToString(e), stage |-> stages[e],
             parameters |-> SubSeqOf(flat, cut[e], cut[e + 1])]]]

\* the ways to cut n parameters into the global ones and those of ne entry points
Cuts(n, ne) ==
    { c \in [1..(ne + 1) -> 0..n] :
        /\ c[ne + 1] = n
        /\ \A x \in 1..ne : c[x] <= c[x + 1] }

(***************************************************************************)
(* State of one invocation of main.                                        *)
(***************************************************************************)
VARIABLES
    tree,                   \* the reflection tree (read-only)
    pc,                     \* where main is
    i,                      \* entry points done by the current loop
    s,                      \* descriptor sets done of entry point i + 1
    k,                      \* fields done of that descriptor set
    globalParameterBlocks,
    globalPushConstants,
    entryPoints,            \* EntryPointReflection per entry point
    entryPointsInputs,
    descriptorSetsInputs,
    descriptorInputs,
    totalSets,
    totalDescriptors,
    setsCapacity,           \* descriptorSetsInputs.capacity()
    descriptorsCapacity,    \* descriptorInputs.capacity()
    descriptorSetBegin,
    descriptorBegin,
    errors,                 \* the errors reported so far
    blobInput,              \* what Blob::CreateBlob was given, if called
    clIn,                   \* a type layout handed to the classifier on its own
    clOut                   \* and what the classifier answered

vars ==
    << tree, pc, i, s, k, globalParameterBlocks, globalPushConstants,
       entryPoints, entryPointsInputs, descriptorSetsInputs, descriptorInputs,
       totalSets, totalDescriptors, setsCapacity, descriptorsCapacity,
       descriptorSetBegin, descriptorBegin, errors, blobInput, clIn, clOut >>

\* a span over a flat sequence, as the indices [begin, end) into it
Span(begin, end) == [begin |-> begin, end |-> end]

\* a default-constructed span: `{}`
EmptySpan == Span(0, 0)

NoPushConstants == [present |-> FALSE, m_name |-> "", m_size |-> 0]

NoLayout == Field("", 0, "Struct", "SLANG_RESOURCE_NONE", FALSE, "SLANG_RESOURCE_ACCESS_NONE")

NoBlob == [called |-> FALSE, entryPoints |-> <<>>]

StartOfMain ==
    /\ pc = "GlobalScan"
    /\ i = 0 /\ s = 0 /\ k = 0
    /\ globalParameterBlocks = <<>>
    /\ globalPushConstants = <<>>
    /\ entryPoints = <<>>
    /\ entryPointsInputs = <<>>
    /\ descriptorSetsInputs = <<>>
    /\ descriptorInputs = <<>>
    /\ totalSets = 0 /\ totalDescriptors = 0
    /\ setsCapacity = 0 /\ descriptorsCapacity = 0
    /\ descriptorSetBegin = 0 /\ descriptorBegin = 0
    /\ errors = {}
    /\ blobInput = NoBlob

Init ==
    /\ \E n \in 0..MaxTotalParams, ne \in 0..MaxEntryPoints :
         \E flat \in [1..n -> ParamPalette], cut \in Cuts(n, ne),
            stages \in [1..ne -> StagePalette] :
                tree = MkTree(flat, cut, stages)
    /\ StartOfMain
    /\ clIn = NoLayout
    /\ clOut = Halted({})

IsParameterBlock(parameter) == parameter.kind = "ParameterBlock"

\* the `else if` of the global scan
IsGlobalPushConstant(parameter) ==
    /\ ~IsParameterBlock(parameter)
    /\ \/ parameter.category = "PushConstantBuffer"
       \/ parameter.kind = "ConstantBuffer"

IsEntryPointPushConstantCategoryOnly(parameter) ==
    /\ ~IsParameterBlock(parameter)
    /\ parameter.category = "PushConstantBuffer"

\* the `else if` of the entry point's parameter walk
IsEntryPointPushConstant(parameter) ==
    /\ ~IsParameterBlock(parameter)
    /\ \/ parameter.category = "Uniform"
       \/ parameter.category = "PushConstantBuffer"

\* lines 187-222: the global scan, then the declarations before the first pass
GlobalScan ==
    /\ pc = "GlobalScan"
    /\ globalParameterBlocks' = SelectSeq(tree.parameters, IsParameterBlock)
    /\ globalPushConstants' = SelectSeq(tree.parameters, IsGlobalPushConstant)
    /\ pc' = "FirstPass"
    /\ i' = 0
    /\ UNCHANGED << tree, s, k, entryPoints, entryPointsInputs,
                    descriptorSetsInputs, descriptorInputs, totalSets, totalDescriptors,
                    setsCapacity, descriptorsCapacity, descriptorSetBegin,
                    descriptorBegin, errors, blobInput, clIn, clOut >>

TooManyPushConstantsOffByOne(pushConstants) == Len(pushConstants) > 2

\* line 281
TooManyPushConstants(pushConstants) == Len(pushConstants) > 1

\* m_name and m_size of the sole candidate
PushConstantsOf(parameter) ==
    [present |-> TRUE, m_name |-> parameter.name,
     m_size |-> GetSize(parameter, parameter.category)]

SumFieldCountsOnePerSet(sets) == Len(sets)

\* lines 293-298: the field counts of the entry point's sets, added up
RECURSIVE SumFieldCounts(_)
SumFieldCounts(sets) ==
    IF sets = <<>> THEN 0
    ELSE Len(Head(sets).fields) + SumFieldCounts(Tail(sets))

\* lines 224-299: one iteration of the first pass
FirstPassEntry ==
    /\ pc = "FirstPass"
    /\ i < Len(tree.entryPoints)
    /\ LET entryPoint == tree.entryPoints[i + 1]
           stage == MapStage(entryPoint.stage)
           sets == globalParameterBlocks
                       \o SelectSeq(entryPoint.parameters, IsParameterBlock)
           pushConstants == globalPushConstants
                       \o SelectSeq(entryPoint.parameters, IsEntryPointPushConstant)
       IN  IF stage = "Unsupported"
           THEN /\ entryPoints' = Append(entryPoints,
                        [m_name |-> entryPoint.name, m_descriptorSets |-> <<>>,
                         m_pushConstants |-> <<>>])
                /\ entryPointsInputs' = Append(entryPointsInputs,
                        [m_name |-> entryPoint.name, m_stage |-> "Unset",
                         m_pushConstants |-> NoPushConstants,
                         m_descriptorSets |-> EmptySpan])
                /\ errors' = errors \cup {"UnsupportedStage"}
                /\ pc' = "Exit1"
                /\ UNCHANGED << i, totalSets, totalDescriptors >>
           ELSE /\ entryPoints' = Append(entryPoints,
                        [m_name |-> entryPoint.name, m_descriptorSets |-> sets,
                         m_pushConstants |-> pushConstants])
                /\ IF TooManyPushConstants(pushConstants)
                   THEN /\ entryPointsInputs' = Append(entryPointsInputs,
                                [m_name |-> entryPoint.name, m_stage |-> stage,
                                 m_pushConstants |-> NoPushConstants,
                                 m_descriptorSets |-> EmptySpan])
                        /\ errors' = errors \cup {"MultiplePushConstants"}
                        /\ pc' = "Exit1"
                        /\ UNCHANGED << i, totalSets, totalDescriptors >>
                   ELSE /\ entryPointsInputs' = Append(entryPointsInputs,
                                [m_name |-> entryPoint.name, m_stage |-> stage,
                                 m_pushConstants |->
                                    IF pushConstants # <<>>
                                    THEN PushConstantsOf(pushConstants[1])
                                    ELSE NoPushConstants,
                                 m_descriptorSets |-> EmptySpan])
                        /\ totalSets' = totalSets + Len(sets)
                        /\ totalDescriptors' = totalDescriptors + SumFieldCounts(sets)
                        /\ i' = i + 1
                        /\ UNCHANGED << pc, errors >>
    /\ UNCHANGED << tree, s, k, globalParameterBlocks,
                    globalPushConstants, descriptorSetsInputs, descriptorInputs,
                    setsCapacity, descriptorsCapacity, descriptorSetBegin,
                    descriptorBegin, blobInput, clIn, clOut >>

\* lines 301-302: the first pass is over, reserve the flat sequences
Reserve ==
    /\ pc = "FirstPass"
    /\ i = Len(tree.entryPoints)
    /\ setsCapacity' = totalSets
    /\ descriptorsCapacity' = totalDescriptors
    /\ pc' = "Populate"
    /\ i' = 0
    /\ UNCHANGED << tree, s, k, globalParameterBlocks,
                    globalPushConstants, entryPoints, entryPointsInputs,
                    descriptorSetsInputs, descriptorInputs, totalSets, totalDescriptors,
                    descriptorSetBegin, descriptorBegin, errors, blobInput, clIn, clOut >>

\* line 312: const size_t descriptorSetBegin = descriptorInputs.size();
DescriptorSetBeginNow == Len(descriptorInputs)

\* lines 304-312: the head of one iteration of the population pass
PopulateEntry ==
    /\ pc = "Populate"
    /\ i < Len(entryPoints)
    /\ IF entryPoints[i + 1].m_descriptorSets = <<>>
       THEN /\ entryPointsInputs' =
                    [entryPointsInputs EXCEPT ![i + 1].m_descriptorSets = EmptySpan]
            /\ i' = i + 1
            /\ UNCHANGED << pc, s, descriptorSetBegin >>
       ELSE /\ descriptorSetBegin' = DescriptorSetBeginNow
            /\ s' = 0
            /\ pc' = "PopulateSet"
            /\ UNCHANGED << i, entryPointsInputs >>
    /\ UNCHANGED << tree, k, globalParameterBlocks, globalPushConstants,
                    entryPoints, descriptorSetsInputs, descriptorInputs, totalSets,
                    totalDescriptors, setsCapacity, descriptorsCapacity,
                    descriptorBegin, errors, blobInput, clIn, clOut >>

DescriptorBeginFromSets == Len(descriptorSetsInputs)

\* line 319: const size_t descriptorBegin = descriptorInputs.size();
DescriptorBeginNow == Len(descriptorInputs)

\* lines 314-321: the head of one iteration of the descriptor set loop
PopulateSet ==
    /\ pc = "PopulateSet"
    /\ s < Len(entryPoints[i + 1].m_descriptorSets)
    /\ descriptorSetsInputs' = Append(descriptorSetsInputs,
            [m_name |-> entryPoints[i + 1].m_descriptorSets[s + 1].name,
             m_descriptors |-> EmptySpan])
    /\ descriptorBegin' = DescriptorBeginNow
    /\ k' = 0
    /\ pc' = "PopulateField"
    /\ UNCHANGED << tree, i, s, globalParameterBlocks,
                    globalPushConstants, entryPoints, entryPointsInputs, descriptorInputs,
                    totalSets, totalDescriptors, setsCapacity, descriptorsCapacity,
                    descriptorSetBegin, errors, blobInput, clIn, clOut >>

\* lines 322-331: one field: the record is pushed, then classified and filled
PopulateField ==
    /\ pc = "PopulateField"
    /\ k < Len(entryPoints[i + 1].m_descriptorSets[s + 1].fields)
    /\ \E halts \in BOOLEAN :
       LET field == entryPoints[i + 1].m_descriptorSets[s + 1].fields[k + 1]
           parsed == ParseDescriptorBindingType(field, halts)
       IN  /\ errors' = errors \cup parsed.errors
           /\ IF parsed.returned
              THEN /\ descriptorInputs' = Append(descriptorInputs,
                            [m_name |-> field.name, m_bindingIndex |-> field.bindingIndex,
                             m_type |-> parsed.type, m_textureType |-> parsed.textureType])
                   /\ k' = k + 1
                   /\ pc' = pc
              ELSE /\ descriptorInputs' = Append(descriptorInputs,
                            [m_name |-> "", m_bindingIndex |-> 0,
                             m_type |-> "Unset", m_textureType |-> "Unset"])
                   /\ k' = k
                   /\ pc' = "Halted"
    /\ UNCHANGED << tree, i, s, globalParameterBlocks,
                    globalPushConstants, entryPoints, entryPointsInputs,
                    descriptorSetsInputs, totalSets, totalDescriptors, setsCapacity,
                    descriptorsCapacity, descriptorSetBegin, descriptorBegin, blobInput, clIn, clOut >>

\* lines 333-339: the fields are done, the set's span is recorded
PopulateSetEnd ==
    /\ pc = "PopulateField"
    /\ k = Len(entryPoints[i + 1].m_descriptorSets[s + 1].fields)
    /\ descriptorSetsInputs' =
            [descriptorSetsInputs EXCEPT ![Len(descriptorSetsInputs)].m_descriptors =
                Span(descriptorBegin, Len(descriptorInputs))]
    /\ s' = s + 1
    /\ pc' = "PopulateSet"
    /\ UNCHANGED << tree, i, k, globalParameterBlocks,
                    globalPushConstants, entryPoints, entryPointsInputs, descriptorInputs,
                    totalSets, totalDescriptors, setsCapacity, descriptorsCapacity,
                    descriptorSetBegin, descriptorBegin, errors, blobInput, clIn, clOut >>

\* lines 341-346: the sets are done, the entry point's span is recorded
PopulateEntryEnd ==
    /\ pc = "PopulateSet"
    /\ s = Len(entryPoints[i + 1].m_descriptorSets)
    /\ entryPointsInputs' =
            [entryPointsInputs EXCEPT ![i + 1].m_descriptorSets =
                Span(descriptorSetBegin, Len(descriptorSetsInputs))]
    /\ i' = i + 1
    /\ pc' = "Populate"
    /\ UNCHANGED << tree, s, k, globalParameterBlocks,
                    globalPushConstants, entryPoints, descriptorSetsInputs,
                    descriptorInputs, totalSets, totalDescriptors, setsCapacity,
                    descriptorsCapacity, descriptorSetBegin, descriptorBegin, errors,
                    blobInput, clIn, clOut >>

\* every field the report classifies again
ReportedFields ==
    UNION { UNION { { set.fields[f] : f \in 1..Len(set.fields) } :
                    set \in { entryPoints[e].m_descriptorSets[x] :
                                x \in 1..Len(entryPoints[e].m_descriptorSets) } } :
            e \in 1..Len(entryPoints) }

ReportErrors ==
    UNION { ParseDescriptorBindingType(field, FALSE).errors : field \in ReportedFields }

\* lines 349-448: the printed report, which classifies every field again
Report ==
    /\ pc = "Populate"
    /\ i = Len(entryPoints)
    /\ errors' = errors \cup ReportErrors
    /\ \E halts \in BOOLEAN :
         pc' = IF halts /\ ReportErrors # {} THEN "Halted" ELSE "CreateBlob"
    /\ UNCHANGED << tree, i, s, k, globalParameterBlocks,
                    globalPushConstants, entryPoints, entryPointsInputs,
                    descriptorSetsInputs, descriptorInputs, totalSets, totalDescriptors,
                    setsCapacity, descriptorsCapacity, descriptorSetBegin,
                    descriptorBegin, blobInput, clIn, clOut >>

\* lines 450-474: the hand-off to the blob encoder, then the file is written
\* (exit 0) or cannot be opened (exit 1)
CreateBlob ==
    /\ pc = "CreateBlob"
    /\ blobInput' = [called |-> TRUE, entryPoints |-> entryPointsInputs]
    /\ \E opened \in BOOLEAN : pc' = IF opened THEN "Exit0" ELSE "Exit1"
    /\ UNCHANGED << tree, i, s, k, globalParameterBlocks,
                    globalPushConstants, entryPoints, entryPointsInputs,
                    descriptorSetsInputs, descriptorInputs, totalSets, totalDescriptors,
                    setsCapacity, descriptorsCapacity, descriptorSetBegin,
                    descriptorBegin, errors, clIn, clOut >>

Next ==
    \/ GlobalScan
    \/ FirstPassEntry
    \/ Reserve
    \/ PopulateEntry
    \/ PopulateSet
    \/ PopulateField
    \/ PopulateSetEnd
    \/ PopulateEntryEnd
    \/ Report
    \/ CreateBlob

Spec == Init /\ [][Next]_vars

(***************************************************************************)
(* The classifier on its own, over every type layout.                      *)
(***************************************************************************)
InitClassify ==
    /\ tree = MkTree(<<>>, <<0>>, <<>>)
    /\ StartOfMain
    /\ clIn \in TypeLayouts
    /\ clOut = Halted({})

Classify ==
    /\ pc = "GlobalScan"
    /\ \E halts \in BOOLEAN : clOut' = ParseDescriptorBindingType(clIn, halts)
    /\ pc' = "Classified"
    /\ UNCHANGED << tree, i, s, k, globalParameterBlocks,
                    globalPushConstants, entryPoints, entryPointsInputs,
                    descriptorSetsInputs, descriptorInputs, totalSets, totalDescriptors,
                    setsCapacity, descriptorsCapacity, descriptorSetBegin,
                    descriptorBegin, errors, blobInput, clIn >>

NextClassify == Classify

SpecClassify == InitClassify /\ [][NextClassify]_vars

(***************************************************************************)
(* What the reflection tree asks for, read off the tree alone.             *)
(***************************************************************************)
\* the parameter blocks entry point e is to get: the global ones, then its own
ExpectedSetsOf(e) ==
    SelectSeq(tree.parameters, LAMBDA p : p.kind = "ParameterBlock")
        \o SelectSeq(tree.entryPoints[e].parameters, LAMBDA p : p.kind = "ParameterBlock")

RECURSIVE ExpectedSetsUpTo(_)
ExpectedSetsUpTo(e) ==
    IF e = 0 THEN <<>> ELSE ExpectedSetsUpTo(e - 1) \o ExpectedSetsOf(e)

\* the push-constant candidates of entry point e: the global ones, then its own
CandidatesOf(e) ==
    SelectSeq(tree.parameters,
              LAMBDA p : /\ p.kind # "ParameterBlock"
                         /\ (p.category = "PushConstantBuffer" \/ p.kind = "ConstantBuffer"))
        \o SelectSeq(tree.entryPoints[e].parameters,
                     LAMBDA p : /\ p.kind # "ParameterBlock"
                                /\ p.category \in {"Uniform", "PushConstantBuffer"})

StageMapped(e) == MapStage(tree.entryPoints[e].stage) # "Unsupported"

\* the flattening went through without any error and reached the hand-off
Succeeded == errors = {} /\ (pc = "CreateBlob" \/ blobInput.called)

\* no output record exists and the encoder was not called
NothingProduced ==
    descriptorSetsInputs = <<>> /\ descriptorInputs = <<>> /\ ~blobInput.called

(***************************************************************************)
(* C1: on a successful run every entry point's descriptor-set range        *)
(* [begin, end) lies inside the DescriptorSet sequence and covers exactly  *)
(* the records appended for that entry point: begin is the number of       *)
(* records appended for the entry points before it, end that number plus   *)
(* its own count (an entry point without sets has an empty range).         *)
(***************************************************************************)
C1_EntryPointRangeCoversItsSets ==
    Succeeded =>
        \A e \in 1..Len(entryPointsInputs) :
            LET r == entryPointsInputs[e].m_descriptorSets
                before == Len(ExpectedSetsUpTo(e - 1))
                own == Len(ExpectedSetsOf(e))
            IN  /\ 0 <= r.begin /\ r.begin <= r.end
                /\ r.end <= Len(descriptorSetsInputs)
                /\ own = 0 => r.begin = r.end
                /\ own > 0 => (r.begin = before /\ r.end = before + own)

(***************************************************************************)
(* C2: on a successful run the range of every entry point holds exactly    *)
(* one record per global parameter block, in declaration order, followed   *)
(* by one per parameter block the entry point declares itself.             *)
(***************************************************************************)
C2_GlobalBlocksInEveryRange ==
    Succeeded =>
        \A e \in 1..Len(entryPointsInputs) :
            LET r == entryPointsInputs[e].m_descriptorSets
                expected == ExpectedSetsOf(e)
            IN  /\ r.end - r.begin = Len(expected)
                /\ r.end <= Len(descriptorSetsInputs)
                /\ \A x \in 1..Len(expected) :
                        descriptorSetsInputs[r.begin + x].m_name = expected[x].name

(***************************************************************************)
(* C3: every DescriptorSet record whose fields have all been appended has  *)
(* a binding range inside the DescriptorBinding sequence, as long as the   *)
(* field count of its element type layout, holding the bindings of its     *)
(* fields in field order; the range of the first record starts at 0 and    *)
(* each record's range starts where the range of the one before it ends.   *)
(***************************************************************************)
\* the last DescriptorSet record is still being filled
SetInProgress ==
    \/ pc = "PopulateField"
    \/ pc = "Halted" /\ i < Len(entryPoints)

CompletedSets == Len(descriptorSetsInputs) - (IF SetInProgress THEN 1 ELSE 0)

C3_SetRangeCoversItsFields ==
    \A x \in 1..CompletedSets :
        LET r == descriptorSetsInputs[x].m_descriptors
            set == ExpectedSetsUpTo(Len(tree.entryPoints))[x]
        IN  /\ 0 <= r.begin /\ r.begin <= r.end
            /\ r.end <= Len(descriptorInputs)
            /\ r.end - r.begin = Len(set.fields)
            /\ descriptorSetsInputs[x].m_name = set.name
            /\ \A f \in 1..Len(set.fields) :
                    /\ descriptorInputs[r.begin + f].m_name = set.fields[f].name
                    /\ descriptorInputs[r.begin + f].m_bindingIndex
                            = set.fields[f].bindingIndex
            /\ r.begin = IF x = 1 THEN 0 ELSE descriptorSetsInputs[x - 1].m_descriptors.end

\* a finished population with sets of three, two and no fields
C3_Witness ==
    /\ pc = "CreateBlob"
    /\ \E x, y, z \in 1..Len(descriptorSetsInputs) :
            /\ x < y
            /\ descriptorSetsInputs[x].m_descriptors = Span(0, 3)
            /\ descriptorSetsInputs[y].m_descriptors = Span(3, 5)
            /\ descriptorSetsInputs[z].m_descriptors.begin
                    = descriptorSetsInputs[z].m_descriptors.end

C5_EveryErrorIsFatal ==
    errors # {} => (pc \in {"Exit1", "Halted"} /\ ~blobInput.called)

(***************************************************************************)
(* C9: an entry point that declares two constant-buffer-kind parameters    *)
(* of its own, whatever their binding category, makes the first pass fail  *)
(* at that entry point with MultiplePushConstants, with no DescriptorSet   *)
(* or DescriptorBinding record appended and the encoder not called.        *)
(***************************************************************************)
OwnConstantBuffers(e) ==
    SelectSeq(tree.entryPoints[e].parameters, LAMBDA p : p.kind = "ConstantBuffer")

FailedAtWithMultiplePushConstants(e) ==
    /\ e = Len(entryPointsInputs)
    /\ pc = "Exit1"
    /\ errors = {"MultiplePushConstants"}
    /\ NothingProduced

C9_TwoConstantBuffersFail ==
    \A e \in 1..Len(entryPointsInputs) :
        (StageMapped(e) /\ Len(OwnConstantBuffers(e)) >= 2)
            => FailedAtWithMultiplePushConstants(e)

(***************************************************************************)
(* C9, amended: an entry point that declares two parameters of its own     *)
(* that are not parameter blocks and whose binding category is uniform or  *)
(* push-constant makes the first pass fail at that entry point with        *)
(* MultiplePushConstants, with no DescriptorSet or DescriptorBinding       *)
(* record appended and the encoder not called.                             *)
(***************************************************************************)
OwnUniformOrPushConstant(e) ==
    SelectSeq(tree.entryPoints[e].parameters,
              LAMBDA p : /\ p.kind # "ParameterBlock"
                         /\ p.category \in {"Uniform", "PushConstantBuffer"})

C9_TwoUniformOrPushConstantFail ==
    \A e \in 1..Len(entryPointsInputs) :
        (StageMapped(e) /\ Len(OwnUniformOrPushConstant(e)) >= 2)
            => FailedAtWithMultiplePushConstants(e)

\* the second entry point declares a uniform and a push-constant buffer
C9_Witness ==
    /\ Len(entryPointsInputs) = 2
    /\ tree.entryPoints[2].parameters = << UniformU, PushP >>
    /\ FailedAtWithMultiplePushConstants(2)

(***************************************************************************)
(* C11: the totals of the sizing pass are the set count and the field      *)
(* count the tree asks for over all entry points, they are what is         *)
(* reserved, the DescriptorSet and DescriptorBinding sequences never grow  *)
(* past them (no append exceeds the reserved capacity, so no recorded      *)
(* range is moved by a reallocation), and the sequences are exactly that   *)
(* long when the population pass has completed.                            *)
(***************************************************************************)
RECURSIVE ExpectedFieldCount(_)
ExpectedFieldCount(sets) ==
    IF Len(sets) = 0 THEN 0
    ELSE Len(sets[Len(sets)].fields)
            + ExpectedFieldCount(SubSeq(sets, 1, Len(sets) - 1))

\* the sizing pass is over and the sequences are reserved
Reserved ==
    \/ pc \in {"Populate", "PopulateSet", "PopulateField", "CreateBlob", "Exit0"}
    \/ blobInput.called
    \/ pc = "Halted"

\* every entry point has been populated
PopulationCompleted ==
    \/ pc = "Populate" /\ i = Len(entryPoints)
    \/ pc \in {"CreateBlob", "Exit0"}
    \/ blobInput.called

C11_PreSizingIsExact ==
    /\ Len(descriptorSetsInputs) <= setsCapacity
    /\ Len(descriptorInputs) <= descriptorsCapacity
    /\ Reserved =>
            /\ setsCapacity = totalSets
            /\ descriptorsCapacity = totalDescriptors
            /\ totalSets = Len(ExpectedSetsUpTo(Len(tree.entryPoints)))
            /\ totalDescriptors
                    = ExpectedFieldCount(ExpectedSetsUpTo(Len(tree.entryPoints)))
    /\ PopulationCompleted =>
            /\ Len(descriptorSetsInputs) = totalSets
            /\ Len(descriptorInputs) = totalDescriptors

\* two entry points populated, three sets and at least five bindings in all
C11_Witness ==
    /\ pc = "Populate"
    /\ i = Len(entryPoints)
    /\ Len(entryPoints) = 2
    /\ totalSets = 3
    /\ Len(descriptorSetsInputs) = 3
    /\ totalDescriptors >= 5
    /\ Len(descriptorInputs) = totalDescriptors

(***************************************************************************)
(* The classifier claims, over the classifier on its own.                  *)
(***************************************************************************)
RecognizedAccess ==
    {"SLANG_RESOURCE_ACCESS_READ", "SLANG_RESOURCE_ACCESS_WRITE",
     "SLANG_RESOURCE_ACCESS_READ_WRITE"}

IsResourceLayout(typeLayout) == typeLayout.kind \notin {"ConstantBuffer", "SamplerState"}

\* the table of the classifier's contract
ContractDimensionality(typeLayout) ==
    CASE typeLayout.baseShape = "SLANG_TEXTURE_1D" ->
            IF typeLayout.isArray THEN "Array1D" ELSE "Single1D"
      [] typeLayout.baseShape = "SLANG_TEXTURE_2D" ->
            IF typeLayout.isArray THEN "Array2D" ELSE "Single2D"
      [] typeLayout.baseShape = "SLANG_TEXTURE_3D" -> "Single3D"
      [] typeLayout.baseShape = "SLANG_TEXTURE_CUBE" ->
            IF typeLayout.isArray THEN "ArrayCube" ELSE "SingleCube"

ContractAnswer(typeLayout) ==
    CASE typeLayout.kind = "ConstantBuffer" -> << "ConstantBuffer", "Single2D" >>
      [] typeLayout.kind = "SamplerState" -> << "Sampler", "Single2D" >>
      [] IsResourceLayout(typeLayout) /\ typeLayout.baseShape \in TextureShapes ->
            << IF typeLayout.access = "SLANG_RESOURCE_ACCESS_READ"
               THEN "SampledTexture" ELSE "StorageReadWriteTexture",
               ContractDimensionality(typeLayout) >>
      [] IsResourceLayout(typeLayout) /\ typeLayout.baseShape \in BufferShapes ->
            << IF typeLayout.access = "SLANG_RESOURCE_ACCESS_READ"
               THEN "StorageReadOnlyBuffer" ELSE "StorageReadWriteBuffer",
               "Single2D" >>

(***************************************************************************)
(* C6: a constant buffer, a sampler state, and a texture or buffer shape   *)
(* with read, write or read-write access are classified without any error  *)
(* and with exactly the kind and dimensionality of the contract's table.   *)
(***************************************************************************)
C6_ClassifierTotalOnModeledInputs ==
    (/\ pc = "Classified"
     /\ \/ ~IsResourceLayout(clIn)
        \/ /\ clIn.baseShape \in TextureShapes \cup BufferShapes
           /\ clIn.access \in RecognizedAccess)
        => /\ clOut.returned
           /\ clOut.errors = {}
           /\ << clOut.type, clOut.textureType >> = ContractAnswer(clIn)

\* a write-only cube array texture came back as a read-write cube array
C6_Witness ==
    /\ pc = "Classified"
    /\ clIn.kind = "Resource"
    /\ clIn.baseShape = "SLANG_TEXTURE_CUBE" /\ clIn.isArray
    /\ clIn.access = "SLANG_RESOURCE_ACCESS_WRITE"
    /\ clOut = Returned("StorageReadWriteTexture", "ArrayCube", {})

(***************************************************************************)
(* C7: a texture or buffer shape with an access mode outside read, write   *)
(* and read-write makes the classifier fail with UnsupportedAccess and     *)
(* nothing else, and no binding kind comes back to the caller.             *)
(***************************************************************************)
C7_UnsupportedAccessFails ==
    (/\ pc = "Classified"
     /\ IsResourceLayout(clIn)
     /\ clIn.baseShape \in TextureShapes \cup BufferShapes
     /\ clIn.access \notin RecognizedAccess)
        => /\ clOut.errors = {"UnsupportedAccess"}
           /\ ~clOut.returned

(***************************************************************************)
(* C8: a base shape that is neither a texture nor a buffer shape is        *)
(* classified (SampledTexture, Single2D) whatever the access mode, and no  *)
(* error is reported for it.                                               *)
(***************************************************************************)
C8_PermissiveFallback ==
    (/\ pc = "Classified"
     /\ IsResourceLayout(clIn)
     /\ clIn.baseShape \notin TextureShapes \cup BufferShapes)
        => clOut = Returned("SampledTexture", "Single2D", {})

====
